---- MODULE Spec2Model ----
(***************************************************************************)
(* Model of scripts/generate-metadata.py: the incremental generator of     *)
(* ERC-721 metadata documents.  One run is: makedirs, load, the sync loop  *)
(* over the cards, the stale cleanup scan, the index write.                *)
(*                                                                         *)
(* JSON values are tagged records.  Texts (file names, file contents,      *)
(* string values) are sequences of pieces; names and file names are        *)
(* spelled one character per piece so that lower(), the slug regex,        *)
(* endswith(), replace() and int() work on characters as in the source.    *)
(***************************************************************************)
EXTENDS Integers, Sequences, FiniteSets, TLC

\* ------------------------------------------------------------------------
\* Bounds of the model
\* ------------------------------------------------------------------------
MaxCards == 2
MaxInitFiles == 1

\* ------------------------------------------------------------------------
\* JSON values as Python sees them after json.load
\* ------------------------------------------------------------------------
JStr(s) == [t |-> "str", v |-> s]
JInt(n) == [t |-> "int", v |-> n]
JDict(p) == [t |-> "dict", v |-> p]
JList(l) == [t |-> "list", v |-> l]
JNull == [t |-> "null"]

IsDict(x) == x.t = "dict"
IsStr(x) == x.t = "str"

\* Python truthiness of a loaded JSON value
Truthy(x) ==
    CASE x.t = "null" -> FALSE
      [] x.t = "int" -> x.v # 0
      [] x.t = "str" -> Len(x.v) > 0
      [] x.t = "dict" -> Len(x.v) > 0
      [] x.t = "list" -> Len(x.v) > 0

\* dict.get(key, default) on a dict given as its ordered <<key, value>> items
RECURSIVE GetItems(_, _, _)
GetItems(items, key, default) ==
    IF items = <<>> THEN default
    ELSE IF Head(items)[1] = key THEN Head(items)[2]
    ELSE GetItems(Tail(items), key, default)

GetOr(d, key, default) == GetItems(d.v, key, default)

\* dict.get(key): None when the key is absent
Get(d, key) == GetOr(d, key, JNull)

HasKey(d, key) == \E k \in 1..Len(d.v) : d.v[k][1] = key

\* ------------------------------------------------------------------------
\* Decimal digits: str(int) and f"{i}"
\* ------------------------------------------------------------------------
DigitChars == <<"0", "1", "2", "3", "4", "5", "6", "7", "8", "9">>

RECURSIVE NatToStr(_)
NatToStr(n) ==
    IF n < 10 THEN <<DigitChars[n + 1]>>
    ELSE NatToStr(n \div 10) \o <<DigitChars[(n % 10) + 1]>>

IntToStr(n) == IF n < 0 THEN <<"-">> \o NatToStr(0 - n) ELSE NatToStr(n)

\* str(x) for the value kinds the card data carries in level and stat values
PyStr(x) ==
    CASE x.t = "str" -> x.v
      [] x.t = "int" -> IntToStr(x.v)

\* ------------------------------------------------------------------------
\* build_metadata
\* ------------------------------------------------------------------------
CardPrefix == <<"C", "a", "r", "d", "_">>
FallbackDescription ==
    <<"A", " ", "W", "h", "i", "r", "l", "p", "o", "o", "l", " ", "c", "a", "r", "d">>
ExternalUrl == <<"https://howlonghasitben.github.io/cog-works/">>

\* name = card.get("name", f"Card_{idx}")
CardName(card, idx) == GetOr(card, "name", JStr(CardPrefix \o IntToStr(idx)))

Attr(trait, value) == JDict(<< <<"trait_type", JStr(trait)>>, <<"value", value>> >>)

\* if card.get(key): attrs.append({"trait_type": trait, "value": card[key]})
FieldAttr(d, key, trait) ==
    IF Truthy(Get(d, key)) THEN <<Attr(trait, Get(d, key))>> ELSE <<>>

StandardAttrs(card) ==
    FieldAttr(card, "type", <<"Type">>)
    \o FieldAttr(card, "rarity", <<"Rarity">>)
    \o (IF Truthy(Get(card, "level"))
        THEN <<Attr(<<"Level">>, JStr(PyStr(Get(card, "level"))))>> ELSE <<>>)
    \o FieldAttr(card, "subtitle", <<"Move">>)
    \o FieldAttr(card, "artist", <<"Artist">>)

StatAttrs(card, stat_key, display) ==
    LET stat == Get(card, stat_key)
    IN  IF Truthy(stat) /\ IsDict(stat) /\ Truthy(Get(stat, "value"))
        THEN <<Attr(<<display>>, JStr(PyStr(Get(stat, "value"))))>>
             \o FieldAttr(stat, "color", <<display, " Gradient">>)
        ELSE <<>>

NumericAttrs(card) ==
    StatAttrs(card, "hp", "HP")
    \o StatAttrs(card, "manaCost", "Mana Cost")
    \o StatAttrs(card, "crit", "Crit")

section_labels ==
    << <<"header", "Header">>, <<"imageArea", "Image Area">>,
       <<"typeSection", "Type Section">>, <<"flavorText", "Flavor Text">>,
       <<"bottomSection", "Bottom Section">>, <<"stat", "Stat">>,
       <<"rarity", "Rarity Badge">> >>

SectionAttrs(theme, key, label) ==
    LET section == Get(theme, key)
    IN  IF ~Truthy(section) \/ ~IsDict(section) THEN <<>>
        ELSE FieldAttr(section, "background", <<label, " Background">>)
             \o FieldAttr(section, "color", <<label, " Color">>)
             \o FieldAttr(section, "border", <<label, " Border">>)
             \o FieldAttr(section, "accentColor", <<label, " Accent">>)

RECURSIVE SectionsAttrs(_, _)
SectionsAttrs(theme, labels) ==
    IF labels = <<>> THEN <<>>
    ELSE SectionAttrs(theme, Head(labels)[1], Head(labels)[2])
         \o SectionsAttrs(theme, Tail(labels))

\* variant: the truthiness test of line 63 left out
ThemeUsable_AnyDict(theme) == IsDict(theme)

\* if theme and isinstance(theme, dict)
ThemeUsable(theme) == Truthy(theme) /\ IsDict(theme)

ThemeAttrs(theme) ==
    IF ThemeUsable(theme)
    THEN FieldAttr(theme, "background", <<"Card Background">>)
         \o SectionsAttrs(theme, section_labels)
    ELSE <<>>

\* props after the theme block: props["theme"] = theme
ThemeProps(theme) == IF ThemeUsable(theme) THEN << <<"theme", theme>> >> ELSE <<>>

RECURSIVE DelItem(_, _)
DelItem(items, key) ==
    IF items = <<>> THEN <<>>
    ELSE IF Head(items)[1] = key THEN DelItem(Tail(items), key)
    ELSE <<Head(items)>> \o DelItem(Tail(items), key)

\* if not props: del meta["properties"]
RemoveEmptyProperties(meta) ==
    IF ~Truthy(Get(meta, "properties")) THEN JDict(DelItem(meta.v, "properties"))
    ELSE meta

build_metadata(card, idx) ==
    LET theme == Get(card, "theme")
        meta == JDict(<<
            <<"name", CardName(card, idx)>>,
            <<"description", IF Truthy(Get(card, "flavorText"))
                             THEN Get(card, "flavorText")
                             ELSE JStr(FallbackDescription)>>,
            <<"image", GetOr(card, "image", JStr(<<>>))>>,
            <<"external_url", JStr(ExternalUrl)>>,
            <<"attributes", JList(StandardAttrs(card) \o NumericAttrs(card)
                                  \o ThemeAttrs(theme))>>,
            <<"properties", JDict(ThemeProps(theme))>> >>)
    IN  RemoveEmptyProperties(meta)

\* ------------------------------------------------------------------------
\* serialize: json.dumps(meta, separators=(",", ":"), ensure_ascii=False)
\* ------------------------------------------------------------------------
\* JSON string escaping of one piece (ensure_ascii=False keeps non-ASCII)
EscapeChar(c) ==
    CASE c = "\"" -> <<"\\", "\"">>
      [] c = "\\" -> <<"\\", "\\">>
      [] OTHER -> <<c>>

RECURSIVE Escape(_)
Escape(s) == IF s = <<>> THEN <<>> ELSE EscapeChar(Head(s)) \o Escape(Tail(s))

RECURSIVE Dumps(_)
RECURSIVE DumpsItems(_)
RECURSIVE DumpsElems(_)
Dumps(x) ==
    CASE x.t = "null" -> <<"null">>
      [] x.t = "int" -> IntToStr(x.v)
      [] x.t = "str" -> <<"\"">> \o Escape(x.v) \o <<"\"">>
      [] x.t = "dict" -> <<"{">> \o DumpsItems(x.v) \o <<"}">>
      [] x.t = "list" -> <<"[">> \o DumpsElems(x.v) \o <<"]">>

DumpsItems(items) ==
    IF items = <<>> THEN <<>>
    ELSE <<"\"", Head(items)[1], "\"", ":">> \o Dumps(Head(items)[2])
         \o (IF Tail(items) = <<>> THEN <<>> ELSE <<",">> \o DumpsItems(Tail(items)))

DumpsElems(elems) ==
    IF elems = <<>> THEN <<>>
    ELSE Dumps(Head(elems))
         \o (IF Tail(elems) = <<>> THEN <<>> ELSE <<",">> \o DumpsElems(Tail(elems)))

serialize(meta) == Dumps(meta)

\* ------------------------------------------------------------------------
\* Slug and index map (loop head, lines 107-109)
\* ------------------------------------------------------------------------
UpperChars ==
    <<"A", "B", "C", "D", "E", "F", "G", "H", "I", "J", "K", "L", "M",
      "N", "O", "P", "Q", "R", "S", "T", "U", "V", "W", "X", "Y", "Z">>
LowerChars ==
    <<"a", "b", "c", "d", "e", "f", "g", "h", "i", "j", "k", "l", "m",
      "n", "o", "p", "q", "r", "s", "t", "u", "v", "w", "x", "y", "z">>

\* str.lower() on one character
LowerChar(c) ==
    IF \E k \in 1..26 : UpperChars[k] = c
    THEN LowerChars[CHOOSE k \in 1..26 : UpperChars[k] = c]
    ELSE c

Lower(s) == [k \in 1..Len(s) |-> LowerChar(s[k])]

\* the class [a-z0-9]
IsSlugChar(c) ==
    \/ \E k \in 1..26 : LowerChars[k] = c
    \/ \E k \in 1..10 : DigitChars[k] = c

\* re.sub(r"[^a-z0-9]+", "-", s): each maximal run of other characters is one "-"
RECURSIVE SubRuns(_, _)
SubRuns(s, inRun) ==
    IF s = <<>> THEN <<>>
    ELSE IF IsSlugChar(Head(s)) THEN <<Head(s)>> \o SubRuns(Tail(s), FALSE)
    ELSE IF inRun THEN SubRuns(Tail(s), TRUE)
    ELSE <<"-">> \o SubRuns(Tail(s), TRUE)

RECURSIVE LStrip(_, _)
LStrip(s, c) == IF s # <<>> /\ Head(s) = c THEN LStrip(Tail(s), c) ELSE s

RECURSIVE RStrip(_, _)
RStrip(s, c) ==
    IF s # <<>> /\ s[Len(s)] = c THEN RStrip(SubSeq(s, 1, Len(s) - 1), c) ELSE s

\* str.strip("-")
Strip(s, c) == RStrip(LStrip(s, c), c)

Slug(name) == Strip(SubRuns(Lower(name), FALSE), "-")

IndexEntry(i, slug) == JDict(<< <<"index", JInt(i)>>, <<"slug", JStr(slug)>> >>)

\* variant: an entry already in the map is kept (first write wins)
IndexPut_FirstWins(items, name, entry) ==
    IF \E k \in 1..Len(items) : items[k][1] = name THEN items
    ELSE Append(items, <<name, entry>>)

\* index_map[name] = entry: a dict keeps the position of a key it already has
IndexPut(items, name, entry) ==
    IF \E k \in 1..Len(items) : items[k][1] = name
    THEN [k \in 1..Len(items) |->
            IF items[k][1] = name THEN <<name, entry>> ELSE items[k]]
    ELSE Append(items, <<name, entry>>)

\* json.dump(index_map, f, indent=2), ensure_ascii at its default (True)
EscapeAsciiChar(c) ==
    CASE c = "\"" -> <<"\\", "\"">>
      [] c = "\\" -> <<"\\", "\\">>
      [] c = "é" -> <<"\\", "u", "0", "0", "e", "9">>
      [] OTHER -> <<c>>

RECURSIVE EscapeAscii(_)
EscapeAscii(s) ==
    IF s = <<>> THEN <<>> ELSE EscapeAsciiChar(Head(s)) \o EscapeAscii(Tail(s))

RECURSIVE DumpIndexItems(_)
DumpIndexItems(items) ==
    IF items = <<>> THEN <<>>
    ELSE LET name == Head(items)[1]
             entry == Head(items)[2]
         IN  <<"\n", "  ", "\"">> \o EscapeAscii(name) \o <<"\"", ": ", "{",
               "\n", "    ", "\"", "index", "\"", ": ">>
             \o IntToStr(Get(entry, "index").v)
             \o <<",", "\n", "    ", "\"", "slug", "\"", ": ", "\"">>
             \o EscapeAscii(Get(entry, "slug").v)
             \o <<"\"", "\n", "  ", "}">>
             \o (IF Tail(items) = <<>> THEN <<"\n">>
                 ELSE <<",">> \o DumpIndexItems(Tail(items)))

DumpIndex(items) ==
    IF items = <<>> THEN <<"{", "}">>
    ELSE <<"{">> \o DumpIndexItems(items) \o <<"}">>

\* ------------------------------------------------------------------------
\* File names and the stale test (lines 114, 130-140)
\* ------------------------------------------------------------------------
DotJson == <<".", "j", "s", "o", "n">>
IndexFile == <<"i", "n", "d", "e", "x">> \o DotJson

\* f"{i}.json"
FileName(i) == IntToStr(i) \o DotJson

StartsWith(s, pre) == Len(s) >= Len(pre) /\ SubSeq(s, 1, Len(pre)) = pre
EndsWith(s, suf) ==
    Len(s) >= Len(suf) /\ SubSeq(s, Len(s) - Len(suf) + 1, Len(s)) = suf

\* str.replace(old, ""): every occurrence, left to right
RECURSIVE Remove(_, _)
Remove(s, old) ==
    IF s = <<>> THEN <<>>
    ELSE IF StartsWith(s, old) THEN Remove(SubSeq(s, Len(old) + 1, Len(s)), old)
    ELSE <<Head(s)>> \o Remove(Tail(s), old)

IsDigit(c) == \E k \in 1..10 : DigitChars[k] = c
DigitValue(c) == (CHOOSE k \in 1..10 : DigitChars[k] = c) - 1

\* int() accepts surrounding whitespace, one sign, and digits that single
\* underscores may separate
Unsigned(s) == IF s # <<>> /\ Head(s) \in {"+", "-"} THEN Tail(s) ELSE s

IsDigitString(s) ==
    /\ s # <<>>
    /\ IsDigit(s[1]) /\ IsDigit(s[Len(s)])
    /\ \A k \in 1..Len(s) : IsDigit(s[k]) \/ (s[k] = "_" /\ IsDigit(s[k + 1]))

IntParses(s) == IsDigitString(Unsigned(Strip(s, " ")))

RECURSIVE DigitsValue(_, _)
DigitsValue(s, acc) ==
    IF s = <<>> THEN acc
    ELSE IF Head(s) = "_" THEN DigitsValue(Tail(s), acc)
    ELSE DigitsValue(Tail(s), 10 * acc + DigitValue(Head(s)))

\* int(s) when it does not raise ValueError
IntOf(s) ==
    LET body == Strip(s, " ")
    IN  IF body[1] = "-" THEN 0 - DigitsValue(Unsigned(body), 0)
        ELSE DigitsValue(Unsigned(body), 0)

\* variants of the stale test: "idx > total", and no endswith check
IsStale_Greater(fname, total) ==
    /\ fname # IndexFile
    /\ EndsWith(fname, DotJson)
    /\ IntParses(Remove(fname, DotJson))
    /\ IntOf(Remove(fname, DotJson)) > total

IsStale_AnySuffix(fname, total) ==
    /\ fname # IndexFile
    /\ IntParses(Remove(fname, DotJson))
    /\ IntOf(Remove(fname, DotJson)) >= total

\* the entry is removed by the cleanup loop
IsStale(fname, total) ==
    /\ fname # IndexFile
    /\ EndsWith(fname, DotJson)
    /\ IntParses(Remove(fname, DotJson))
    /\ IntOf(Remove(fname, DotJson)) >= total

\* ------------------------------------------------------------------------
\* The output directory: a function from the names present to their contents
\* ------------------------------------------------------------------------
EmptyDir == [n \in {} |-> <<>>]

\* os.path.exists(out_path)
Exists(d, path) == path \in DOMAIN d

\* with open(path, "w") as f: f.write(content)
WriteFile(d, path, content) ==
    [n \in DOMAIN d \cup {path} |-> IF n = path THEN content ELSE d[n]]

\* variant: the entry is counted but not removed
RemoveFile_Keep(d, path) == d

\* os.remove(path)
RemoveFile(d, path) == [n \in DOMAIN d \ {path} |-> d[n]]

\* variants of the skip test, as slips in line 117-120 would make it
ShouldSkip_Never(force, d, path, new_content) == FALSE
ShouldSkip_ExistsOnly(force, d, path, new_content) == ~force /\ Exists(d, path)
ShouldSkip_IgnoreForce(force, d, path, new_content) ==
    Exists(d, path) /\ d[path] = new_content

\* not FORCE and os.path.exists(out_path) and existing == new_content
ShouldSkip(force, d, path, new_content) ==
    ~force /\ Exists(d, path) /\ d[path] = new_content

\* card.get(...) needs a dict, name.lower() needs a str
RecordOk(card, idx) == IsDict(card) /\ IsStr(CardName(card, idx))

NewContent(card, idx) == serialize(build_metadata(card, idx))

\* one pass of the loop body over the file of card idx
SyncOne(force, d, path, new_content) ==
    IF ShouldSkip(force, d, path, new_content) THEN d
    ELSE WriteFile(d, path, new_content)

\* index_map[name] = {"index": i, "slug": slug}
IndexStep(items, card, idx) ==
    IndexPut(items, CardName(card, idx).v, IndexEntry(idx, Slug(CardName(card, idx).v)))

\* ------------------------------------------------------------------------
\* Inputs the model draws from
\* ------------------------------------------------------------------------
Chars_AlphaBeta == <<"A", "l", "p", "h", "a", " ", "B", "e", "t", "a">>
Chars_Gamma == <<"G", "a", "m", "m", "a", "!", "!">>

RecordUniverse == <<
    \* a card with a level and a theme that has a background
    JDict(<< <<"name", JStr(Chars_AlphaBeta)>>,
             <<"level", JInt(3)>>,
             <<"theme", JDict(<< <<"background", JStr(<<"bg">>)>> >>)>> >>),
    \* a card whose theme is present but empty
    JDict(<< <<"name", JStr(Chars_Gamma)>>,
             <<"flavorText", JStr(<<"f">>)>>,
             <<"crit", JDict(<< <<"value", JInt(2)>> >>)>>,
             <<"theme", JDict(<<>>)>> >>),
    \* a record that is not an object
    JInt(5) >>

\* file names that may be in the directory before the first run
OddNames ==
    { <<"-", "1">> \o DotJson,
      <<"0", "1">> \o DotJson,
      <<"1">>,
      <<"x">> \o DotJson }

NameUniverse == {FileName(k) : k \in 0..MaxCards} \cup OddNames

Junk == <<"junk">>
\* what open(path, "w") leaves when the write after it fails
Truncated == <<>>

\* ------------------------------------------------------------------------
\* State
\* ------------------------------------------------------------------------
VARIABLES
    input,        \* cardData.json: [readable, records]
    FORCE,        \* "--force" in sys.argv
    dirExists,    \* OUT_DIR exists
    dir,          \* contents of OUT_DIR
    pc,           \* position of the script
    cards, total, i, index_map, written, skipped, stale,
    todo,         \* entries of os.listdir(OUT_DIR) not yet visited
    meta,         \* the document build_metadata returned last
    run,          \* "first" or "second" invocation
    dirAtStart, existedAtStart,   \* the output location when this run began
    dir0,         \* the directory when the first run began
    prevDone, prevTotal,   \* how the previous run went
    abortCause,   \* why the run aborted: "input" or "io"
    fsWrites, fsRemoves, indexWrites  \* file operations made by this run

vars == <<input, FORCE, dirExists, dir, pc, cards, total, i, index_map, written,
          skipped, stale, todo, meta, run, dirAtStart, existedAtStart, dir0,
          prevDone, prevTotal, abortCause, fsWrites, fsRemoves,
          indexWrites>>

locals == <<cards, total, i, index_map, written, skipped, stale, todo>>
history == <<run, dirAtStart, existedAtStart, dir0, prevDone, prevTotal>>
counters == <<fsWrites, fsRemoves, indexWrites>>

\* module-level names before the first statement has run
FreshLocals ==
    /\ cards = <<>> /\ total = 0 /\ i = 0 /\ index_map = <<>>
    /\ written = 0 /\ skipped = 0 /\ stale = 0 /\ todo = {}

FreshLocalsNext ==
    /\ cards' = <<>> /\ total' = 0 /\ i' = 0 /\ index_map' = <<>>
    /\ written' = 0 /\ skipped' = 0 /\ stale' = 0 /\ todo' = {}
    /\ meta' = JNull

\* the process is gone: nothing of its memory is left
Dead ==
    /\ pc' = "aborted"
    /\ FreshLocalsNext
    /\ fsWrites' = 0 /\ fsRemoves' = 0 /\ indexWrites' = 0

Records(n, f) == [k \in 1..n |-> RecordUniverse[f[k]]]

InitDirs ==
    {[n \in S |-> Junk] : S \in {T \in SUBSET NameUniverse : Cardinality(T) <= MaxInitFiles}}

Init ==
    /\ \/ input = [readable |-> FALSE, records |-> <<>>]
       \/ \E n \in 0..MaxCards : \E f \in [1..n -> 1..Len(RecordUniverse)] :
             input = [readable |-> TRUE, records |-> Records(n, f)]
    /\ FORCE \in BOOLEAN
    /\ \/ dirExists = FALSE /\ dir = EmptyDir
       \/ dirExists = TRUE /\ dir \in InitDirs
    /\ pc = "start"
    /\ FreshLocals
    /\ meta = JNull
    /\ run = "first"
    /\ dirAtStart = dir /\ existedAtStart = dirExists /\ dir0 = dir
    /\ prevDone = FALSE /\ prevTotal = 0
    /\ abortCause = "none"
    /\ fsWrites = 0 /\ fsRemoves = 0 /\ indexWrites = 0

\* line 17: os.makedirs(OUT_DIR, exist_ok=True)
MakeDirs ==
    /\ pc = "start"
    /\ dirExists' = TRUE
    /\ pc' = "load"
    /\ UNCHANGED <<input, FORCE, dir, locals, meta, history, abortCause, counters>>

\* lines 19-23: cards = json.load(open(CARD_DATA)); total = len(cards)
Load ==
    /\ pc = "load" /\ input.readable
    /\ cards' = input.records
    /\ total' = Len(input.records)
    /\ index_map' = <<>> /\ written' = 0 /\ skipped' = 0
    /\ pc' = "loop"
    /\ UNCHANGED <<input, FORCE, dirExists, dir, i, stale, todo, meta, history,
                   abortCause, counters>>

\* line 19 raises: the input is missing or is not JSON
LoadFail ==
    /\ pc = "load" /\ ~input.readable
    /\ pc' = "aborted" /\ abortCause' = "input"
    /\ UNCHANGED <<input, FORCE, dirExists, dir, locals, meta, history, counters>>

\* lines 106-126: one iteration of the sync loop
SyncStep ==
    /\ pc = "loop" /\ i < total /\ RecordOk(cards[i + 1], i)
    /\ LET card == cards[i + 1]
           out_path == FileName(i)
           new_content == NewContent(card, i)
       IN  /\ index_map' = IndexStep(index_map, card, i)
           /\ meta' = build_metadata(card, i)
           /\ dir' = SyncOne(FORCE, dir, out_path, new_content)
           /\ IF ShouldSkip(FORCE, dir, out_path, new_content)
              THEN skipped' = skipped + 1 /\ UNCHANGED <<written, fsWrites>>
              ELSE written' = written + 1 /\ fsWrites' = fsWrites + 1
                   /\ UNCHANGED skipped
    /\ i' = i + 1
    /\ UNCHANGED <<input, FORCE, dirExists, pc, cards, total, stale, todo, history,
                   abortCause, fsRemoves, indexWrites>>

\* lines 107-108 raise on a record that is not an object with a string name
SyncFail ==
    /\ pc = "loop" /\ i < total /\ ~RecordOk(cards[i + 1], i)
    /\ Dead /\ abortCause' = "input"
    /\ UNCHANGED <<input, FORCE, dirExists, dir, history>>

\* lines 129-130: stale = 0; os.listdir(OUT_DIR)
ListDir ==
    /\ pc = "loop" /\ i = total
    /\ stale' = 0
    /\ todo' = DOMAIN dir
    /\ pc' = "scan"
    /\ UNCHANGED <<input, FORCE, dirExists, dir, cards, total, i, index_map, written,
                   skipped, meta, history, abortCause, counters>>

\* lines 130-140: one entry of the listing, in whatever order listdir gave
ScanStep ==
    /\ pc = "scan"
    /\ \E fname \in todo :
         /\ todo' = todo \ {fname}
         /\ IF IsStale(fname, total)
            THEN /\ dir' = RemoveFile(dir, fname)
                 /\ stale' = stale + 1
                 /\ fsRemoves' = fsRemoves + 1
            ELSE UNCHANGED <<dir, stale, fsRemoves>>
    /\ UNCHANGED <<input, FORCE, dirExists, pc, cards, total, i, index_map, written,
                   skipped, meta, history, abortCause, fsWrites, indexWrites>>

\* lines 142-146: the index is written after the listing is exhausted
WriteIndex ==
    /\ pc = "scan" /\ todo = {}
    /\ dir' = WriteFile(dir, IndexFile, DumpIndex(index_map))
    /\ indexWrites' = indexWrites + 1
    /\ pc' = "done"
    /\ UNCHANGED <<input, FORCE, dirExists, locals, meta, history, abortCause,
                   fsWrites, fsRemoves>>

\* the process dies between two file operations (an I/O error, a kill)
Crash ==
    /\ pc \in {"loop", "scan"}
    /\ Dead /\ abortCause' = "io"
    /\ UNCHANGED <<input, FORCE, dirExists, dir, history>>

\* lines 124-125 fail after open(out_path, "w") has truncated the file
CrashInWrite ==
    /\ pc = "loop" /\ i < total /\ RecordOk(cards[i + 1], i)
    /\ ~ShouldSkip(FORCE, dir, FileName(i), NewContent(cards[i + 1], i))
    /\ dir' = WriteFile(dir, FileName(i), Truncated)
    /\ Dead /\ abortCause' = "io"
    /\ UNCHANGED <<input, FORCE, dirExists, history>>

\* lines 143-144 fail after open(index.json, "w") has truncated the file
CrashInIndex ==
    /\ pc = "scan" /\ todo = {}
    /\ dir' = WriteFile(dir, IndexFile, Truncated)
    /\ Dead /\ abortCause' = "io"
    /\ UNCHANGED <<input, FORCE, dirExists, history>>

\* the script is started again: with the same input after an abort, with the
\* same or a shrunk input after a completed run
Rerun ==
    /\ pc \in {"done", "aborted"} /\ run = "first"
    /\ run' = "second"
    /\ \E m \in 0..Len(input.records) :
         /\ pc = "aborted" => m = Len(input.records)
         /\ input' = [input EXCEPT !.records = SubSeq(input.records, 1, m)]
    /\ FORCE' \in BOOLEAN
    /\ prevDone' = (pc = "done")
    /\ prevTotal' = Len(input.records)
    /\ dirAtStart' = dir /\ existedAtStart' = dirExists
    /\ pc' = "start"
    /\ FreshLocalsNext
    /\ abortCause' = "none"
    /\ fsWrites' = 0 /\ fsRemoves' = 0 /\ indexWrites' = 0
    /\ UNCHANGED <<dirExists, dir, dir0>>

Next ==
    \/ MakeDirs \/ Load \/ LoadFail \/ SyncStep \/ SyncFail \/ ListDir
    \/ ScanStep \/ WriteIndex \/ Crash \/ CrashInWrite \/ CrashInIndex \/ Rerun

Spec == Init /\ [][Next]_vars

\* ------------------------------------------------------------------------
\* A whole uninterrupted run, lines 106-144, as one function of the directory
\* ------------------------------------------------------------------------
RECURSIVE SyncAll(_, _, _, _)
SyncAll(force, d, records, k) ==
    IF k >= Len(records) THEN d
    ELSE SyncAll(force,
                 SyncOne(force, d, FileName(k), NewContent(records[k + 1], k)),
                 records, k + 1)

RECURSIVE IndexAll(_, _, _)
IndexAll(items, records, k) ==
    IF k >= Len(records) THEN items
    ELSE IndexAll(IndexStep(items, records[k + 1], k), records, k + 1)

RECURSIVE Cleanup(_, _, _)
Cleanup(d, names, n) ==
    IF names = {} THEN d
    ELSE LET fname == CHOOSE x \in names : TRUE
         IN  Cleanup(IF IsStale(fname, n) THEN RemoveFile(d, fname) ELSE d,
                     names \ {fname}, n)

RunResult(force, d, records) ==
    LET synced == SyncAll(force, d, records, 0)
    IN  WriteFile(Cleanup(synced, DOMAIN synced, Len(records)), IndexFile,
                  DumpIndex(IndexAll(<<>>, records, 0)))

\* ------------------------------------------------------------------------
\* build_metadata on its own, over a wider choice of records
\* ------------------------------------------------------------------------
\* each choice is <<>> (the key is absent) or <<value>>
NameChoices == << <<>>, <<JStr(Chars_AlphaBeta)>>, <<JStr(Chars_Gamma)>> >>

ThemeChoices == <<
    <<>>,
    <<JNull>>,
    <<JDict(<<>>)>>,
    <<JStr(<<"dark">>)>>,
    <<JList(<<>>)>>,
    <<JList(<<JStr(<<"x">>)>>)>>,
    <<JInt(0)>>,
    <<JDict(<< <<"background", JStr(<<"bg">>)>> >>)>>,
    <<JDict(<< <<"stat", JDict(<< <<"border", JStr(<<"b">>)>> >>)>> >>)>>,
    <<JDict(<< <<"header", JStr(<<"h">>)>> >>)>> >>

HpChoices == <<
    <<>>,
    <<JInt(7)>>,
    <<JDict(<< <<"value", JInt(0)>> >>)>>,
    <<JDict(<< <<"value", JInt(10)>> >>)>>,
    <<JDict(<< <<"value", JInt(10)>>, <<"color", JStr(<<"red">>)>> >>)>> >>

Field(key, choice) == IF choice = <<>> THEN <<>> ELSE << <<key, choice[1]>> >>

BuildInit ==
    /\ \E a \in 1..Len(NameChoices), b \in 1..Len(HpChoices), c \in 1..Len(ThemeChoices) :
         cards = <<JDict(Field("name", NameChoices[a]) \o Field("hp", HpChoices[b])
                         \o Field("theme", ThemeChoices[c]))>>
    /\ i \in 0..(MaxCards - 1)
    /\ input = [readable |-> TRUE, records |-> cards]
    /\ total = 1 /\ index_map = <<>>
    /\ written = 0 /\ skipped = 0 /\ stale = 0 /\ todo = {}
    /\ FORCE = FALSE /\ dirExists = TRUE /\ dir = EmptyDir
    /\ pc = "build"
    /\ meta = JNull
    /\ run = "first"
    /\ dirAtStart = dir /\ existedAtStart = dirExists /\ dir0 = dir
    /\ prevDone = FALSE /\ prevTotal = 0
    /\ abortCause = "none"
    /\ fsWrites = 0 /\ fsRemoves = 0 /\ indexWrites = 0

\* lines 107-112 on one record: the index entry and the document
BuildStep ==
    /\ pc = "build"
    /\ index_map' = IndexStep(index_map, cards[1], i)
    /\ meta' = build_metadata(cards[1], i)
    /\ pc' = "built"
    /\ UNCHANGED <<input, FORCE, dirExists, dir, cards, total, i, written, skipped,
                   stale, todo, history, abortCause, counters>>

BuildNext == BuildStep

BuildSpec == BuildInit /\ [][BuildNext]_vars

\* ------------------------------------------------------------------------
\* Properties
\* ------------------------------------------------------------------------
Canonical(lo, hi) == {FileName(k) : k \in lo..hi}

\* the name with ".json" removed reads as an integer
NameIsInt(n) == n # IndexFile /\ IntParses(Remove(n, DotJson))
NameInt(n) == IntOf(Remove(n, DotJson))

\* an entry the cleanup looks at as the document of an index
IsDocument(n) == NameIsInt(n) /\ EndsWith(n, DotJson)

SecondAfterDone == pc = "done" /\ run = "second" /\ prevDone
SecondAfterAbort == pc = "done" /\ run = "second" /\ ~prevDone

\* the entries os.listdir saw: what the run found plus what the loop wrote
Scanned == DOMAIN dirAtStart \cup Canonical(0, total - 1)

\* C1: a non-force run that follows a completed run over the same input
\* writes no document (written = 0, unchanged = N, no file write made) and
\* leaves every {i}.json as it found it.
C1_Idempotence ==
    (SecondAfterDone /\ ~FORCE /\ total = prevTotal) =>
        /\ written = 0 /\ skipped = total /\ fsWrites = 0
        /\ \A k \in 0..(total - 1) :
             /\ FileName(k) \in DOMAIN dir /\ FileName(k) \in DOMAIN dirAtStart
             /\ dir[FileName(k)] = dirAtStart[FileName(k)]

C1_Witness == SecondAfterDone /\ ~FORCE /\ total = prevTotal /\ total = MaxCards

\* C2 as stated: after a completed run the documents in the directory are
\* exactly 0.json .. (N-1).json, plus the index file; no other document for
\* any index, inside or outside 0..N-1, remains.
C2_ExactlyTheDocuments ==
    pc = "done" =>
        /\ {n \in DOMAIN dir : IsDocument(n)} = Canonical(0, total - 1)
        /\ IndexFile \in DOMAIN dir

\* C2 amended: after a completed run every {i}.json for i in 0..N-1 holds
\* the document of card i, the index file is there, and no document whose
\* name reads as an integer >= N remains.
C2_Completeness ==
    pc = "done" =>
        /\ \A k \in 0..(total - 1) :
             /\ FileName(k) \in DOMAIN dir
             /\ dir[FileName(k)] = NewContent(cards[k + 1], k)
        /\ IndexFile \in DOMAIN dir
        /\ \A n \in DOMAIN dir : IsDocument(n) => NameInt(n) < total

C2_Witness ==
    /\ pc = "done" /\ total >= 1 /\ fsRemoves >= 1
    /\ \E n \in DOMAIN dirAtStart : IsDocument(n) /\ NameInt(n) = total

\* C3 as stated: a non-force run over the first M of the N records of the
\* completed run before it deletes exactly the documents M.json .. (N-1).json,
\* counts N-M stale files, and writes or alters no document 0..M-1.
C3_DeletesExactlyNminusM ==
    (SecondAfterDone /\ ~FORCE /\ total < prevTotal) =>
        /\ stale = prevTotal - total
        /\ DOMAIN dirAtStart \ DOMAIN dir = Canonical(total, prevTotal - 1)
        /\ fsWrites = 0
        /\ \A k \in 0..(total - 1) : dir[FileName(k)] = dirAtStart[FileName(k)]

\* C3 amended: that run deletes M.json .. (N-1).json together with every
\* other entry ending in .json whose name reads as an integer >= M, and counts
\* them all: N-M when there is no such other entry, more otherwise.  It
\* writes or alters no document 0..M-1.
C3_Staleness ==
    (SecondAfterDone /\ ~FORCE /\ total < prevTotal) =>
        LET deleted == DOMAIN dirAtStart \ DOMAIN dir
            others == {n \in DOMAIN dirAtStart \ Canonical(total, prevTotal - 1) :
                         IsDocument(n) /\ NameInt(n) >= total}
        IN  /\ deleted = Canonical(total, prevTotal - 1) \cup others
            /\ stale = (prevTotal - total) + Cardinality(others)
            /\ fsRemoves = stale
            /\ fsWrites = 0 /\ written = 0
            /\ \A k \in 0..(total - 1) :
                 /\ FileName(k) \in DOMAIN dir
                 /\ dir[FileName(k)] = dirAtStart[FileName(k)]

C3_Witness ==
    /\ SecondAfterDone /\ ~FORCE /\ total >= 1 /\ prevTotal = total + 1
    /\ stale = 1

\* C4: in non-force mode an iteration of the sync loop writes {i}.json if and
\* only if the file is absent or its content differs from the newly
\* serialized document; a skip leaves the directory as it was; either way
\* the file then holds the newly serialized document.
C4_SyncDecision ==
    [][(pc = "loop" /\ i' = i + 1 /\ ~FORCE) =>
        LET path == FileName(i)
            new_content == NewContent(cards[i + 1], i)
            differs == path \notin DOMAIN dir \/ dir[path] # new_content
        IN  /\ (fsWrites' = fsWrites + 1) <=> differs
            /\ (written' = written + 1) <=> differs
            /\ ~differs => (dir' = dir /\ skipped' = skipped + 1 /\ fsWrites' = fsWrites)
            /\ differs => dir' = WriteFile(dir, path, new_content)
            /\ path \in DOMAIN dir' /\ dir'[path] = new_content]_vars

C4_Witness == pc = "loop" /\ ~FORCE /\ skipped >= 1 /\ written >= 1

\* C5: a completed force run has rewritten every one of the N documents:
\* written = N, unchanged = 0, N file writes, also when every file matched.
C5_ForceRewritesAll ==
    (pc = "done" /\ FORCE) =>
        /\ written = total /\ skipped = 0 /\ fsWrites = total
        /\ \A k \in 0..(total - 1) :
             dir[FileName(k)] = NewContent(cards[k + 1], k)

C5_Witness ==
    /\ pc = "done" /\ FORCE /\ total = MaxCards /\ written = total
    /\ \A k \in 0..(total - 1) :
         /\ FileName(k) \in DOMAIN dirAtStart
         /\ dirAtStart[FileName(k)] = NewContent(cards[k + 1], k)

\* C6 as stated: of the entries the scan saw, other than the index file,
\* every one whose name reads as an integer >= N is deleted and counted, every
\* one whose name does not read as an integer is left, and none whose integer
\* is < N is deleted.
C6_DeletesEveryIntegerName ==
    pc = "done" =>
        /\ \A n \in Scanned \ {IndexFile} :
             /\ (NameIsInt(n) /\ NameInt(n) >= total) => n \notin DOMAIN dir
             /\ ~NameIsInt(n) => n \in DOMAIN dir
             /\ (NameIsInt(n) /\ NameInt(n) < total) => n \in DOMAIN dir
        /\ stale = Cardinality({n \in Scanned \ {IndexFile} :
                                  NameIsInt(n) /\ NameInt(n) >= total})

\* C6 amended: when the scan completes, every entry other than the index
\* file whose name ends in .json and, with ".json" removed, reads as an
\* integer >= N is deleted and counted; every other entry is left in place:
\* names that do not read as an integer, names that do not end in .json, and
\* names whose integer is < N.
C6_Reconciler ==
    pc = "done" =>
        /\ \A n \in Scanned \ {IndexFile} :
             IF EndsWith(n, DotJson) /\ NameIsInt(n) /\ NameInt(n) >= total
             THEN n \notin DOMAIN dir
             ELSE n \in DOMAIN dir
        /\ stale = Cardinality({n \in Scanned \ {IndexFile} :
                                  EndsWith(n, DotJson) /\ NameIsInt(n)
                                  /\ NameInt(n) >= total})
        /\ fsRemoves = stale

C6_Witness ==
    /\ pc = "done" /\ stale >= 1
    /\ \E n \in DOMAIN dirAtStart :
         (~NameIsInt(n) \/ ~EndsWith(n, DotJson)) /\ n # IndexFile /\ n \in DOMAIN dir

\* C7: a run that aborts on its input (unreadable or malformed document, a
\* malformed record at any position) has changed nothing at the output
\* location: no directory created, no document written or deleted, the index
\* file not rewritten.
C7_InputAbortTouchesNothing ==
    (pc = "aborted" /\ abortCause = "input") =>
        /\ dirExists = existedAtStart
        /\ dir = dirAtStart

\* C8: a complete run that follows an aborted run over the same input leaves
\* the directory as one uninterrupted run from the original directory would.
C8_RecoveryByRerun ==
    SecondAfterAbort => (dirExists /\ dir = RunResult(FORCE, dir0, cards))

C8_Witness ==
    /\ SecondAfterAbort /\ total = MaxCards
    /\ dirAtStart # dir0
    /\ \E n \in DOMAIN dirAtStart : dirAtStart[n] = Truncated

\* C9: after a completed run the index file holds one entry per distinct
\* card name, each with the position of the last record of that name and the
\* slug of the name; the file is written once by every completed run, in
\* force and non-force mode alike.
C9_IndexCorrect ==
    pc = "done" =>
        LET names == {CardName(cards[k], k - 1).v : k \in 1..total}
            last(nm) == CHOOSE k \in 1..total :
                          /\ CardName(cards[k], k - 1).v = nm
                          /\ \A j \in (k + 1)..total : CardName(cards[j], j - 1).v # nm
        IN  /\ Len(index_map) = Cardinality(names)
            /\ {index_map[k][1] : k \in 1..Len(index_map)} = names
            /\ \A k \in 1..Len(index_map) :
                 LET nm == index_map[k][1]
                     entry == index_map[k][2]
                 IN  /\ Get(entry, "index") = JInt(last(nm) - 1)
                     /\ Get(entry, "slug") = JStr(Slug(nm))
                     /\ nm = Chars_AlphaBeta =>
                          Get(entry, "slug").v =
                            <<"a", "l", "p", "h", "a", "-", "b", "e", "t", "a">>
                     /\ nm = Chars_Gamma =>
                          Get(entry, "slug").v = <<"g", "a", "m", "m", "a">>
            /\ indexWrites = 1
            /\ IndexFile \in DOMAIN dir
            /\ dir[IndexFile] = DumpIndex(index_map)

C9_Witness ==
    /\ pc = "done" /\ total >= 2 /\ Len(index_map) < total
    /\ FORCE /\ IndexFile \in DOMAIN dirAtStart

\* C10 as stated: the document has a properties field if and only if the
\* record has a theme, and then properties.theme is that theme; properties is
\* never an empty map.
C10_PropertiesIffThemePresent ==
    pc = "built" =>
        /\ HasKey(meta, "properties") <=> HasKey(cards[1], "theme")
        /\ HasKey(meta, "properties") =>
             Get(meta, "properties") = JDict(<< <<"theme", Get(cards[1], "theme")>> >>)

\* C10 amended: the document has a properties field if and only if the
\* record's theme is a non-empty object, and then properties is exactly
\* {theme: that object}; properties is never an empty map.
C10_PropertiesEmission ==
    pc = "built" =>
        LET theme == Get(cards[1], "theme")
        IN  /\ HasKey(meta, "properties") <=> (theme.t = "dict" /\ Len(theme.v) > 0)
            /\ HasKey(meta, "properties") =>
                 /\ Get(meta, "properties") = JDict(<< <<"theme", theme>> >>)
                 /\ Len(Get(meta, "properties").v) > 0

C10_Witness ==
    /\ pc = "built" /\ HasKey(cards[1], "theme")
    /\ ~HasKey(meta, "properties")
    /\ Get(cards[1], "theme").t = "dict"

====
